---- MODULE Spec2Model ----
(***************************************************************************)
(* A model of hpswitch: the interactive command session of Switch          *)
(* (switch.py), the bitmap port-list decoder (port.py) and the range-list  *)
(* decoders of VLAN (vlan.py) and Interface (interface.py).                *)
(*                                                                         *)
(* Byte strings are sequences of one-character strings; the three control  *)
(* bytes are written ESC, CR and LF.                                       *)
(***************************************************************************)
EXTENDS Integers, Sequences, FiniteSets, TLC

VARIABLES
    \* ---- the interactive session (switch.py) ----
    pc,            \* where the client is: init_recv1, init_recv2, idle, recv, returned, timeout
    wire,          \* bytes the device has sent that no recv has returned yet
    closed,        \* the channel has been closed by the peer
    prompted,      \* the device ends the current response with its prompt
    command,       \* the command of the current execute_command call
    recv_buffer,   \* execute_command's recv_buffer in and at the exit of the read loop
    result,        \* the value execute_command returned
    response,      \* the bytes the device sent in answer to the current command
    output,        \* the <output> part of that answer
    clean_start,   \* no unread byte was in the stream when the command was sent
    delivery,      \* recv results of this call that held data: none, one, many
    last_recv,     \* what the last recv of this call returned: none, data, empty
    calls,         \* execute_command calls made on the session
    \* ---- get_port_list_enabled_ports (port.py) ----
    port_list,     \* the bitmap, a sequence of byte values
    enabled_ports, \* the base_port of each returned Port, in order
    pl_pc,         \* input, done
    \* ---- the range-list decoders (vlan.py, interface.py) ----
    pieces,        \* the items and ranges the list string was written from
    list_string,   \* the list string handed to the decoder
    decoder,       \* which decoder ran: none (yet), vlan, interface
    decoded,       \* its outcome: [ok |-> TRUE, list |-> ...] or [ok |-> FALSE, error |-> ...]
    \* ---- Port (port.py) ----
    identifier,      \* the identifier a Port is constructed with
    base_port,       \* Port.base_port
    identifier_read, \* what the identifier property gave: Ok(<<string>>) or Raise(...)
    port_pc,         \* idle, input, constructed, read; vlans_unread, vlans_read
    egress_ports,    \* dot1qVlanStaticEgressPorts: rows <<vlan id, port list>> in OID order
    pvid,            \* dot1qPvid of the port
    in_untagged_ports, \* whether the port is in the untagged_ports of the VLAN pvid
    untagged_vlan,   \* Port.untagged_vlan: <<>> for None, <<vid>> for a VLAN
    tagged_vlans,    \* Port.tagged_vlans: the vid of each VLAN, in order
    \* ---- the configuration operations (switch.py, vlan.py, interface.py) ----
    op,            \* the mutating operation called: [kind |-> ..., arg |-> ...]
    op_pc,         \* idle, rejected, running, done
    op_result,     \* "" while running, None, Exception, AssertionError
    sent,          \* the commands the operation has run through execute_command
    cmd_output,    \* what execute_command returned for the mutating command
    dev_reply,     \* the message the device answered the mutating command with
    was_member,    \* whether the interface was in the set when the device got the command
    dev_mode,      \* the session's mode on the device: manager, config
    dev_prefix,    \* the letters the device's interface identifiers start with
    dev_tagged,    \* the numbers of the interfaces tagged in the VLAN
    dev_addresses, \* the IPv4 addresses configured on the VLAN
    dev_routes,    \* the static routes of the device
    dev_vlan_name, \* the name of the VLAN
    dev_if_name,   \* the name of the interface, <<>> when it has none
    getter,        \* the property read last: none, tagged_interfaces, name
    read_result,   \* what the read gave: Ok(...) or Raise(...)
    read_truth     \* the device's value of the property when it was queried

sessionVars == <<pc, wire, closed, prompted, command, recv_buffer, result, response,
                 output, clean_start, delivery, last_recv, calls>>
portListVars == <<port_list, enabled_ports, pl_pc>>
rangeListVars == <<pieces, list_string, decoder, decoded>>
portVars == <<identifier, base_port, identifier_read, port_pc,
              egress_ports, pvid, in_untagged_ports, untagged_vlan, tagged_vlans>>
opVars == <<op, op_pc, op_result, sent, cmd_output, dev_reply, was_member>>
deviceVars == <<dev_mode, dev_prefix, dev_tagged, dev_addresses, dev_routes, dev_vlan_name,
                dev_if_name>>
readVars == <<getter, read_result, read_truth>>
configVars == <<opVars, deviceVars, readVars>>
vars == <<sessionVars, portListVars, rangeListVars, portVars, configVars>>

(***************************************************************************)
(* Bounds of the model.                                                    *)
(***************************************************************************)
MaxCalls == 2
MaxPortListLen == 2
MaxPieces == 2
MaxSpan == 2
MaxVlans == 3

(***************************************************************************)
(* Bytes.                                                                  *)
(***************************************************************************)
ESC == "ESC"
CR == "CR"
LF == "LF"
CRLF == <<CR, LF>>

\* The character class [A-Za-z] of the regular expressions.
Letters ==
    {"a","b","c","d","e","f","g","h","i","j","k","l","m",
     "n","o","p","q","r","s","t","u","v","w","x","y","z",
     "A","B","C","D","E","F","G","H","I","J","K","L","M",
     "N","O","P","Q","R","S","T","U","V","W","X","Y","Z"}

IsLetter(c) == c \in Letters

\* The suffix '# ' that execute_command takes for the shell prompt.
PromptSuffix == <<"#", " ">>

DropFirst(s, n) == SubSeq(s, n + 1, Len(s))

StartsWith(s, p) == Len(s) >= Len(p) /\ SubSeq(s, 1, Len(p)) = p

EndsWith(s, p) == Len(s) >= Len(p) /\ SubSeq(s, Len(s) - Len(p) + 1, Len(s)) = p

(***************************************************************************)
(* re.sub("\x1B[^A-Za-z]*?[A-Za-z]", '', s): every leftmost non-overlapping*)
(* match (ESC, non-letters, the first letter after them) is removed in one *)
(* left-to-right pass; an ESC that no letter follows stays.                *)
(***************************************************************************)
HasLetter(s) == \E i \in 1..Len(s) : IsLetter(s[i])

FirstLetter(s) == CHOOSE i \in 1..Len(s) : IsLetter(s[i]) /\ \A j \in 1..(i - 1) : ~IsLetter(s[j])

RECURSIVE StripAll(_)
StripAll(s) ==
    IF s = <<>> THEN <<>>
    ELSE IF Head(s) = ESC /\ HasLetter(Tail(s))
         THEN StripAll(DropFirst(Tail(s), FirstLetter(Tail(s))))
         ELSE <<Head(s)>> \o StripAll(Tail(s))

\* The same substitution with count=1: only the first control sequence goes.
StripFirstOnly(s) ==
    IF \E i \in 1..Len(s) : s[i] = ESC /\ HasLetter(DropFirst(s, i))
    THEN LET i == CHOOSE k \in 1..Len(s) :
                      /\ s[k] = ESC /\ HasLetter(DropFirst(s, k))
                      /\ \A j \in 1..(k - 1) : ~(s[j] = ESC /\ HasLetter(DropFirst(s, j)))
         IN  SubSeq(s, 1, i - 1) \o DropFirst(DropFirst(s, i), FirstLetter(DropFirst(s, i)))
    ELSE s

StripControlSequences(s) == StripAll(s)

\* recv_buffer.endswith('#'): the blank of the prompt suffix forgotten.
EndsWithHash(s) == Len(s) >= 1 /\ s[Len(s)] = "#"

\* recv_buffer.endswith('# ')
EndsWithPrompt(s) == EndsWith(s, PromptSuffix)

\* re.sub(r"^" + command, "", s): the command, a literal here, is removed
\* when the buffer starts with it.
StripCommand(s, cmd) == IF StartsWith(s, cmd) THEN DropFirst(s, Len(cmd)) ELSE s

\* re.sub(r"\r\n.*?# $", "", s): the leftmost CR LF from which no further
\* LF occurs ('.' matches no LF) up to a final '# ' is removed with all that
\* follows it.  The buffer ends with '# ' here, so '$' is the end of it.
PromptLineStarts(s) ==
    {i \in 1..Len(s) :
        /\ i + 3 <= Len(s)
        /\ s[i] = CR /\ s[i + 1] = LF
        /\ \A j \in (i + 2)..Len(s) : s[j] # LF
        /\ EndsWith(DropFirst(s, i + 1), PromptSuffix)}

Least(S) == CHOOSE x \in S : \A y \in S : x <= y

StripPromptLine(s) ==
    IF PromptLineStarts(s) = {} THEN s
    ELSE SubSeq(s, 1, Least(PromptLineStarts(s)) - 1)

\* Lines 59-62: what execute_command returns from the buffer of the loop's exit.
ReturnValue(buf, cmd) == StripPromptLine(StripCommand(buf, cmd))

(***************************************************************************)
(* The device.  It greets with a banner and a prompt, answers the          *)
(* constructor's empty line with a new prompt line, and answers a command  *)
(* with <control codes><echoed command> CR LF <output> CR LF <prompt line>.*)
(* A device that hangs sends no prompt and may go on sending control       *)
(* sequences.                                                              *)
(***************************************************************************)
PromptLine == <<"s", "#", " ">>
Banner == <<"h", CR, LF>>
Greeting == Banner \o PromptLine
EmptyLineResponse == CRLF \o PromptLine
Noise == <<ESC, "[", "K">>

Commands == {<<"c">>}
ControlPrefixes == {<<>>, <<ESC, "[", "K">>}
Outputs == {<<"v">>, <<"#", " ", "w">>, <<ESC, "2", "v">>, <<"v", CR, LF, "w">>}

DeviceResponse(ctrl, cmd, out, withPrompt) ==
    ctrl \o cmd \o CRLF \o out \o (IF withPrompt THEN CRLF \o PromptLine ELSE <<>>)

(***************************************************************************)
(* Switch.__init__, lines 26-31: recv, send '\n', recv.  A recv returns    *)
(* some non-empty prefix of the unread bytes.                              *)
(***************************************************************************)
InitRecv1 ==
    /\ pc = "init_recv1"
    /\ \E n \in 1..Len(wire) :
          wire' = DropFirst(wire, n) \o EmptyLineResponse
    /\ pc' = "init_recv2"
    /\ UNCHANGED <<closed, prompted, command, recv_buffer, result, response, output,
                   clean_start, delivery, last_recv, calls>>
    /\ UNCHANGED <<portListVars, rangeListVars, portVars, configVars>>

InitRecv2 ==
    /\ pc = "init_recv2"
    /\ \E n \in 1..Len(wire) :
          wire' = DropFirst(wire, n)
    /\ pc' = "idle"
    /\ UNCHANGED <<closed, prompted, command, recv_buffer, result, response, output,
                   clean_start, delivery, last_recv, calls>>
    /\ UNCHANGED <<portListVars, rangeListVars, portVars, configVars>>

(***************************************************************************)
(* Switch.execute_command.                                                 *)
(***************************************************************************)
\* Lines 43-46: settimeout, send(command + '\n'), recv_buffer = ''.
Send ==
    /\ pc \in {"idle", "returned"}
    /\ ~closed
    /\ calls < MaxCalls
    /\ \E cmd \in Commands, ctrl \in ControlPrefixes, out \in Outputs, p \in BOOLEAN :
          /\ command' = cmd
          /\ output' = out
          /\ prompted' = p
          /\ response' = DeviceResponse(ctrl, cmd, out, p)
          /\ wire' = wire \o DeviceResponse(ctrl, cmd, out, p)
    /\ clean_start' = (wire = <<>>)
    /\ recv_buffer' = <<>>
    /\ delivery' = "none"
    /\ last_recv' = "none"
    /\ result' = <<>>
    /\ calls' = calls + 1
    /\ pc' = "recv"
    /\ UNCHANGED closed
    /\ UNCHANGED <<portListVars, rangeListVars, portVars, configVars>>

\* Lines 49-62 for one recv result `chunk`: append, strip, test, and on the
\* prompt leave the loop and return.
LoopBody(chunk) ==
    LET buf == StripControlSequences(recv_buffer \o chunk) IN
    /\ recv_buffer' = buf
    /\ IF EndsWithPrompt(buf)
       THEN pc' = "returned" /\ result' = ReturnValue(buf, command)
       ELSE pc' = "recv" /\ UNCHANGED result

\* recv returns data.
RecvData ==
    /\ pc = "recv"
    /\ wire # <<>>
    /\ \E n \in 1..Len(wire) :
          /\ LoopBody(SubSeq(wire, 1, n))
          /\ wire' = DropFirst(wire, n)
    /\ delivery' = IF delivery = "none" THEN "one" ELSE "many"
    /\ last_recv' = "data"
    /\ UNCHANGED <<closed, prompted, command, response, output, clean_start, calls>>
    /\ UNCHANGED <<portListVars, rangeListVars, portVars, configVars>>

\* recv on a closed channel with nothing left to read returns the empty string.
RecvEmpty ==
    /\ pc = "recv"
    /\ wire = <<>>
    /\ closed
    /\ LoopBody(<<>>)
    /\ last_recv' = "empty"
    /\ UNCHANGED <<wire, closed, prompted, command, response, output, clean_start,
                   delivery, calls>>
    /\ UNCHANGED <<portListVars, rangeListVars, portVars, configVars>>

\* recv raises socket.timeout when nothing arrives within the channel's timeout.
RecvTimeout ==
    /\ pc = "recv"
    /\ wire = <<>>
    /\ ~closed
    /\ pc' = "timeout"
    /\ UNCHANGED <<wire, closed, prompted, command, recv_buffer, result, response, output,
                   clean_start, delivery, last_recv, calls>>
    /\ UNCHANGED <<portListVars, rangeListVars, portVars, configVars>>

\* The peer closes the channel while the client waits for the prompt.  What it
\* sent before is read first, so the close shows once the stream is drained.
ChannelClose ==
    /\ pc = "recv"
    /\ wire = <<>>
    /\ ~closed
    /\ closed' = TRUE
    /\ UNCHANGED <<pc, wire, prompted, command, recv_buffer, result, response, output,
                   clean_start, delivery, last_recv, calls>>
    /\ UNCHANGED <<portListVars, rangeListVars, portVars, configVars>>

\* A device that sends no prompt goes on sending control sequences.
DeviceNoise ==
    /\ pc = "recv"
    /\ wire = <<>>
    /\ ~closed
    /\ ~prompted
    /\ wire' = Noise
    /\ UNCHANGED <<pc, closed, prompted, command, recv_buffer, result, response, output,
                   clean_start, delivery, last_recv, calls>>
    /\ UNCHANGED <<portListVars, rangeListVars, portVars, configVars>>

SessionInit ==
    /\ pc = "init_recv1"
    /\ wire = Greeting
    /\ closed = FALSE
    /\ prompted = TRUE
    /\ command = <<>>
    /\ recv_buffer = <<>>
    /\ result = <<>>
    /\ response = <<>>
    /\ output = <<>>
    /\ clean_start = TRUE
    /\ delivery = "none"
    /\ last_recv = "none"
    /\ calls = 0

PortListIdle ==
    /\ port_list = <<>>
    /\ enabled_ports = <<>>
    /\ pl_pc = "idle"

RangeListIdle ==
    /\ pieces = <<>>
    /\ list_string = <<>>
    /\ decoder = "idle"
    /\ decoded = [ok |-> TRUE, list |-> <<>>]

PortVlansIdle ==
    /\ egress_ports = <<>>
    /\ pvid = 1
    /\ in_untagged_ports = FALSE
    /\ untagged_vlan = <<>>
    /\ tagged_vlans = <<>>

PortIdle ==
    /\ identifier = <<>>
    /\ base_port = 0
    /\ identifier_read = [ok |-> TRUE, list |-> <<>>]
    /\ port_pc = "idle"
    /\ PortVlansIdle

NoOp == [kind |-> "none", arg |-> <<>>]

OpIdle ==
    /\ op = NoOp
    /\ op_pc = "idle"
    /\ op_result = ""
    /\ sent = <<>>
    /\ cmd_output = <<>>
    /\ dev_reply = <<>>
    /\ was_member = FALSE

ReadIdle ==
    /\ getter = "none"
    /\ read_result = [ok |-> TRUE, list |-> <<>>]
    /\ read_truth = <<>>

ConfigIdle ==
    /\ OpIdle
    /\ ReadIdle
    /\ dev_mode = "manager"
    /\ dev_prefix = <<>>
    /\ dev_tagged = {}
    /\ dev_addresses = {}
    /\ dev_routes = {}
    /\ dev_vlan_name = <<>>
    /\ dev_if_name = <<>>

Init == SessionInit /\ PortListIdle /\ RangeListIdle /\ PortIdle /\ ConfigIdle

Next ==
    \/ InitRecv1
    \/ InitRecv2
    \/ Send
    \/ RecvData
    \/ RecvEmpty
    \/ RecvTimeout
    \/ ChannelClose
    \/ DeviceNoise

Spec == Init /\ [][Next]_vars

\* The read loop keeps running: a recv that can return does return.
FairSpec == Spec /\ WF_vars(Next)

(***************************************************************************)
(* The claims about execute_command and the constructor.                   *)
(***************************************************************************)
\* ESC, then any number of non-letters, then one letter, somewhere in s.
ContainsControlSequence(s) ==
    \E i \in 1..Len(s) : s[i] = ESC /\ \E j \in (i + 1)..Len(s) : IsLetter(s[j])

Bytes(s) == {s[i] : i \in 1..Len(s)}

\* What execute_command returns when one recv delivers the whole response.
OneRecvResult == ReturnValue(StripControlSequences(response), command)

\* C1: execute_command returns normally only when the accumulated, stripped
\* receive buffer ends with the prompt suffix '# '.
C1_ReturnsOnlyAtPrompt ==
    pc = "returned" =>
        /\ Len(recv_buffer) >= 2
        /\ recv_buffer[Len(recv_buffer) - 1] = "#"
        /\ recv_buffer[Len(recv_buffer)] = " "

\* A call returned after several recv results of a response with control codes.
C1_Witness ==
    /\ pc = "returned"
    /\ delivery = "many"
    /\ ContainsControlSequence(response)

\* C2: for a response <control codes><echoed command> CR LF <output> CR LF
\* <prompt line>, read whole from a stream with nothing unread in it,
\* execute_command returns exactly <output>.
C2_ReturnsExactlyOutput ==
    (/\ pc = "returned"
     /\ clean_start
     /\ prompted
     /\ delivery = "one"
     /\ wire = <<>>
     /\ ESC \notin Bytes(output))
    => result = output

\* C3: the returned value does not depend on how the response, sent into a
\* stream with nothing unread in it and ending in the prompt, is split into
\* recv results: it is what one recv of the whole response yields.
C3_ChunkingIndependent ==
    (pc = "returned" /\ clean_start /\ prompted) => result = OneRecvResult

\* C4: the string execute_command returns contains no control sequence (ESC,
\* non-letters, one letter), whatever the response and its chunking.
C4_NoControlSequenceReturned ==
    pc = "returned" => ~ContainsControlSequence(result)

\* A call returned a response that held control sequences, read in several chunks.
C4_Witness ==
    /\ pc = "returned"
    /\ delivery = "many"
    /\ ContainsControlSequence(output)
    /\ StartsWith(response, <<ESC>>)

\* C5: a call that is reading ends: it returns on the prompt or fails with
\* a timeout; it does not read forever.
C5_EventuallyTimesOut ==
    [](pc = "recv" => <>(pc \in {"returned", "timeout"}))

\* C6: once recv has returned the empty string (the stream is closed) the
\* call has failed with ConnectionLost and is not in its read loop.
C6_ConnectionLostOnClose ==
    last_recv = "empty" => pc = "connection_lost"

\* C7: the constructor, and every call that returned, leaves no unread byte
\* in the stream, and a call returns what the response to its own command
\* yields.
C7_CallsAreFramed ==
    /\ pc = "idle" => wire = <<>>
    /\ (pc = "returned" /\ prompted) => (wire = <<>> /\ result = OneRecvResult)

(***************************************************************************)
(* get_port_list_enabled_ports (port.py).  A Port is its base_port.        *)
(***************************************************************************)
BitsPerByte == 8
TopBit == 7

\* a & b on naturals.
RECURSIVE BitAnd(_, _)
BitAnd(a, b) ==
    IF a = 0 \/ b = 0 THEN 0
    ELSE (a % 2) * (b % 2) + 2 * BitAnd(a \div 2, b \div 2)

\* 1 << n
ShiftLeftOne(n) == 2 ^ n

\* The test with the mask 1 << bit: bit 0 the least significant.
BitIsSetLsbFirst(byte, bit) == BitAnd(byte, ShiftLeftOne(bit)) # 0

\* (ord(byte) & (1 << (7 - bit))) != 0
BitIsSet(byte, bit) == BitAnd(byte, ShiftLeftOne(TopBit - bit)) # 0

\* for bit in range(0, 8), from `bit` on.
RECURSIVE EnabledInByte(_, _, _)
EnabledInByte(byte, byte_count, bit) ==
    IF bit >= BitsPerByte THEN <<>>
    ELSE (IF BitIsSet(byte, bit) THEN <<byte_count * 8 + (bit + 1)>> ELSE <<>>)
         \o EnabledInByte(byte, byte_count, bit + 1)

\* for byte in port_list, from the byte at 0-based position byte_count on.
RECURSIVE EnabledFrom(_, _)
EnabledFrom(pl, byte_count) ==
    IF byte_count >= Len(pl) THEN <<>>
    ELSE EnabledInByte(pl[byte_count + 1], byte_count, 0) \o EnabledFrom(pl, byte_count + 1)

get_port_list_enabled_ports(pl) == EnabledFrom(pl, 0)

\* The byte values the bitmaps are drawn from: every single bit, none, all, mixes.
ByteValues == {0, 1, 2, 4, 8, 16, 32, 64, 128, 129, 85, 170, 255}

PortLists == UNION {[1..n -> ByteValues] : n \in 0..MaxPortListLen}

DecodePortList ==
    /\ pl_pc = "input"
    /\ enabled_ports' = get_port_list_enabled_ports(port_list)
    /\ pl_pc' = "done"
    /\ UNCHANGED port_list
    /\ UNCHANGED <<sessionVars, rangeListVars, portVars, configVars>>

\* A session on which no command runs: the codecs do no I/O.
SessionIdle ==
    /\ pc = "idle"
    /\ wire = <<>>
    /\ closed = FALSE
    /\ prompted = TRUE
    /\ command = <<>>
    /\ recv_buffer = <<>>
    /\ result = <<>>
    /\ response = <<>>
    /\ output = <<>>
    /\ clean_start = TRUE
    /\ delivery = "none"
    /\ last_recv = "none"
    /\ calls = 0

PortListInit ==
    /\ SessionIdle
    /\ RangeListIdle
    /\ PortIdle
    /\ ConfigIdle
    /\ port_list \in PortLists
    /\ enabled_ports = <<>>
    /\ pl_pc = "input"

PortListNext == DecodePortList

PortListSpec == PortListInit /\ [][PortListNext]_vars

\* C8: the decoder returns one Port per set bit and none for a clear bit,
\* bit b (0 the most significant) of the byte at position i being base_port
\* i*8 + b + 1, in ascending order; the all-zero bitmap gives the empty list.
C8_OnePortPerSetBit ==
    pl_pc = "done" =>
        /\ \A i \in 1..Len(enabled_ports), j \in 1..Len(enabled_ports) :
              i < j => enabled_ports[i] < enabled_ports[j]
        /\ {enabled_ports[k] : k \in 1..Len(enabled_ports)} =
              {i * 8 + b + 1 : <<i, b>> \in
                  {x \in (0..(Len(port_list) - 1)) \X (0..7) :
                      (port_list[x[1] + 1] \div (2 ^ (7 - x[2]))) % 2 = 1}}
        /\ (\A i \in 1..Len(port_list) : port_list[i] = 0) => enabled_ports = <<>>

\* A two-byte bitmap with bits set in both bytes was decoded.
C8_Witness ==
    /\ pl_pc = "done"
    /\ port_list = <<129, 64>>
    /\ enabled_ports = <<1, 8, 10>>

(***************************************************************************)
(* The range-list decoders: VLAN._interface_list_from_interface_list_string*)
(* (vlan.py) and the list decoding of Interface._get_tagged_vlans          *)
(* (interface.py).  An Interface is its identifier, a VLAN is its vid.     *)
(***************************************************************************)
Digits == <<"0", "1", "2", "3", "4", "5", "6", "7", "8", "9">>

IsDigit(c) == \E d \in 1..Len(Digits) : Digits[d] = c

DigitValue(c) == (CHOOSE d \in 1..Len(Digits) : Digits[d] = c) - 1

\* str.split(sep): the pieces between the separators; no separator, one piece.
RECURSIVE Split(_, _)
Split(s, sep) ==
    IF \A i \in 1..Len(s) : s[i] # sep THEN <<s>>
    ELSE LET i == CHOOSE k \in 1..Len(s) : s[k] = sep /\ \A j \in 1..(k - 1) : s[j] # sep
         IN  <<SubSeq(s, 1, i - 1)>> \o Split(DropFirst(s, i), sep)

\* int(s) accepts a non-empty string of decimal digits (no sign or blank
\* occurs in a list string) and raises ValueError on anything else.
IsInt(s) == s # <<>> /\ \A i \in 1..Len(s) : IsDigit(s[i])

RECURSIVE ParseInt(_)
ParseInt(s) ==
    IF s = <<>> THEN 0
    ELSE ParseInt(SubSeq(s, 1, Len(s) - 1)) * 10 + DigitValue(s[Len(s)])

\* str(i) for i >= 0.
RECURSIVE IntToStr(_)
IntToStr(i) ==
    IF i < 10 THEN <<Digits[i + 1]>>
    ELSE IntToStr(i \div 10) \o <<Digits[(i % 10) + 1]>>

\* re.split('([a-zA-Z]+)', s)[1]: the first maximal run of letters of s;
\* there is no element 1 (IndexError) when s holds no letter.
AlphaComponent(s) ==
    LET first == FirstLetter(s)
        last == CHOOSE k \in first..Len(s) :
                    /\ \A j \in first..k : IsLetter(s[j])
                    /\ (k = Len(s) \/ ~IsLetter(s[k + 1]))
    IN  SubSeq(s, first, last)

Ok(list) == [ok |-> TRUE, list |-> list]
Raise(error) == [ok |-> FALSE, error |-> error]

\* range(start, end): the end left out.
RangeExclusive(start, end) == [k \in 1..(end - start) |-> start + k - 1]

\* range(start, end + 1)
RangeInclusive(start, end) == [k \in 1..(end + 1 - start) |-> start + k - 1]

\* vlan.py lines 176-195: one piece of the list.
InterfaceRange(interface_range_string) ==
    LET interface_range_components == Split(interface_range_string, "-") IN
    IF Len(interface_range_components) = 1
    THEN Ok(<<interface_range_components[1]>>)
    ELSE IF Len(interface_range_components) = 2
    THEN IF ~HasLetter(interface_range_components[1]) THEN Raise("IndexError")
         ELSE LET interface_alpha_component == AlphaComponent(interface_range_components[1])
                  start_string == DropFirst(interface_range_components[1],
                                            Len(interface_alpha_component))
                  end_string == DropFirst(interface_range_components[2],
                                          Len(interface_alpha_component))
              IN  IF ~IsInt(start_string) \/ ~IsInt(end_string) THEN Raise("ValueError")
                  ELSE LET numbers == RangeInclusive(ParseInt(start_string),
                                                     ParseInt(end_string))
                       IN  Ok([k \in 1..Len(numbers) |->
                                  interface_alpha_component \o IntToStr(numbers[k])])
    ELSE Raise("Invalid interface range format encountered.")

\* interface.py lines 120-131: one piece of the list.
VlanRange(vlan_range_string) ==
    LET vlan_range_components == Split(vlan_range_string, "-") IN
    IF Len(vlan_range_components) = 1
    THEN IF ~IsInt(vlan_range_components[1]) THEN Raise("ValueError")
         ELSE Ok(<<ParseInt(vlan_range_components[1])>>)
    ELSE IF Len(vlan_range_components) = 2
    THEN IF ~IsInt(vlan_range_components[1]) \/ ~IsInt(vlan_range_components[2])
         THEN Raise("ValueError")
         ELSE Ok(RangeInclusive(ParseInt(vlan_range_components[1]),
                                ParseInt(vlan_range_components[2])))
    ELSE Raise("Invalid VLAN range format encountered.")

\* The loop over the pieces: the results are appended in order and the first
\* exception ends the call.
RECURSIVE AppendAll(_)
AppendAll(outcomes) ==
    IF outcomes = <<>> THEN Ok(<<>>)
    ELSE IF ~Head(outcomes).ok THEN Head(outcomes)
    ELSE LET rest == AppendAll(Tail(outcomes)) IN
         IF rest.ok THEN Ok(Head(outcomes).list \o rest.list) ELSE rest

\* VLAN._interface_list_from_interface_list_string
interface_list_from_interface_list_string(interface_list_string) ==
    LET interface_range_strings == Split(interface_list_string, ",") IN
    AppendAll([k \in 1..Len(interface_range_strings) |->
                  InterfaceRange(interface_range_strings[k])])

\* Interface._get_tagged_vlans, lines 115-133, on the matched list string.
tagged_vlans_from_vlan_list_string(vlan_list_string) ==
    LET vlan_range_strings == Split(vlan_list_string, ",") IN
    AppendAll([k \in 1..Len(vlan_range_strings) |-> VlanRange(vlan_range_strings[k])])

(***************************************************************************)
(* The list strings of running-config: items and ranges of port            *)
(* identifiers (A1, Trk1) or of bare numbers, joined by commas.            *)
(***************************************************************************)
Numerals ==
    << <<"0">>, <<"1">>, <<"2">>, <<"3">>, <<"4">>, <<"5">>, <<"6">>, <<"7">>, <<"8">>,
       <<"9">>, <<"1", "0">>, <<"1", "1">>, <<"1", "2">>, <<"1", "3">>, <<"1", "4">>,
       <<"1", "5">>, <<"1", "6">>, <<"1", "7">>, <<"1", "8">>, <<"1", "9">>, <<"2", "0">>,
       <<"2", "1">>, <<"2", "2">>, <<"2", "3">>, <<"2", "4">> >>

Numeral(n) == Numerals[n + 1]

Prefixes == {<<"A">>, <<"T", "r", "k">>, <<>>}
ItemNumbers == {1, 5, 9}
RangeStarts == {1, 9}

Pieces ==
    [kind : {"single"}, prefix : Prefixes, lo : ItemNumbers, hi : {0}]
    \cup {[kind |-> "range", prefix |-> p, lo |-> a, hi |-> a + d] :
             p \in Prefixes, a \in RangeStarts, d \in (-1)..MaxSpan}
    \cup {[kind |-> "triple", prefix |-> <<"A">>, lo |-> 1, hi |-> 2]}

PieceText(p) ==
    CASE p.kind = "single" -> p.prefix \o Numeral(p.lo)
      [] p.kind = "range" -> p.prefix \o Numeral(p.lo) \o <<"-">> \o p.prefix \o Numeral(p.hi)
      [] p.kind = "triple" -> p.prefix \o Numeral(p.lo) \o <<"-">> \o p.prefix \o Numeral(p.hi)
                              \o <<"-">> \o p.prefix \o Numeral(p.hi)

RECURSIVE Join(_)
Join(ps) ==
    IF ps = <<>> THEN <<>>
    ELSE IF Len(ps) = 1 THEN PieceText(ps[1])
    ELSE PieceText(ps[1]) \o <<",">> \o Join(Tail(ps))

PieceLists == UNION {[1..n -> Pieces] : n \in 0..MaxPieces}

DecodeInterfaceList ==
    /\ decoder = "none"
    /\ decoded' = interface_list_from_interface_list_string(list_string)
    /\ decoder' = "vlan"
    /\ UNCHANGED <<pieces, list_string>>
    /\ UNCHANGED <<sessionVars, portListVars, portVars, configVars>>

DecodeTaggedVlans ==
    /\ decoder = "none"
    /\ decoded' = tagged_vlans_from_vlan_list_string(list_string)
    /\ decoder' = "interface"
    /\ UNCHANGED <<pieces, list_string>>
    /\ UNCHANGED <<sessionVars, portListVars, portVars, configVars>>

RangeListInit ==
    /\ SessionIdle
    /\ PortListIdle
    /\ PortIdle
    /\ ConfigIdle
    /\ pieces \in PieceLists
    /\ list_string = Join(pieces)
    /\ decoder = "none"
    /\ decoded = Ok(<<>>)

RangeListNext ==
    \/ DecodeInterfaceList
    \/ DecodeTaggedVlans

RangeListSpec == RangeListInit /\ [][RangeListNext]_vars

\* The identifiers a piece stands for: the item itself, or P<a>, ..., P<b>.
Expansion(p) ==
    IF p.kind = "single" THEN <<p.prefix \o Numeral(p.lo)>>
    ELSE [k \in 1..(p.hi - p.lo + 1) |-> p.prefix \o Numeral(p.lo + k - 1)]

RECURSIVE Expansions(_)
Expansions(ps) ==
    IF ps = <<>> THEN <<>> ELSE Expansion(Head(ps)) \o Expansions(Tail(ps))

\* A piece C9 speaks of: an item, or a range P<a>-P<b> with a letter prefix
\* and a <= b.
InC9(p) ==
    \/ p.kind = "single"
    \/ p.kind = "range" /\ p.prefix # <<>> /\ p.lo <= p.hi

\* C9: the interface-list decoder of VLAN decodes a comma-separated list in
\* order of appearance, an item to itself and P<a>-P<b> (a <= b) to
\* P<a>, ..., P<b>, both ends included.
C9_DecodesRangesInOrder ==
    (/\ decoder = "vlan"
     /\ pieces # <<>>
     /\ \A k \in 1..Len(pieces) : InC9(pieces[k]))
    => decoded = Ok(Expansions(pieces))

\* 'A1-A3,A5' was decoded to A1, A2, A3, A5.
C9_Witness ==
    /\ decoder = "vlan"
    /\ list_string = <<"A", "1", "-", "A", "3", ",", "A", "5">>
    /\ decoded = Ok(<< <<"A", "1">>, <<"A", "2">>, <<"A", "3">>, <<"A", "5">> >>)

\* C10: the empty list string decodes to the empty sequence, without an
\* error, in the decoder of VLAN and in the decoder of Interface.
C10_EmptyDecodesToEmpty ==
    (decoder # "none" /\ list_string = <<>>) => decoded = Ok(<<>>)

\* The numbers a piece of bare numbers stands for.
NumberExpansion(p) ==
    IF p.kind = "single" THEN <<p.lo>>
    ELSE [k \in 1..(p.hi - p.lo + 1) |-> p.lo + k - 1]

RECURSIVE NumberExpansions(_)
NumberExpansions(ps) ==
    IF ps = <<>> THEN <<>> ELSE NumberExpansion(Head(ps)) \o NumberExpansions(Tail(ps))

\* C14: a list of ranges 'a-b' of bare numbers, a <= b, decodes to a, a+1,
\* ..., b in the tagged-VLAN-list decoder of Interface (as VLAN ids) and in
\* the interface-list decoder of VLAN (as identifiers).
C14_NumericRangesDecode ==
    (/\ decoder \in {"vlan", "interface"}
     /\ pieces # <<>>
     /\ \A k \in 1..Len(pieces) :
           pieces[k].kind = "range" /\ pieces[k].prefix = <<>> /\ pieces[k].lo <= pieces[k].hi)
    => decoded = Ok(IF decoder = "vlan" THEN Expansions(pieces) ELSE NumberExpansions(pieces))

(***************************************************************************)
(* Port (port.py): the chassis identifier and the base port number.        *)
(***************************************************************************)
PortsPerUnit == 24

\* string.ascii_uppercase
AsciiUppercase ==
    <<"A","B","C","D","E","F","G","H","I","J","K","L","M",
      "N","O","P","Q","R","S","T","U","V","W","X","Y","Z">>

AsciiLowercase ==
    <<"a","b","c","d","e","f","g","h","i","j","k","l","m",
      "n","o","p","q","r","s","t","u","v","w","x","y","z">>

\* str.upper on one character.
Upper(c) ==
    IF \E k \in 1..Len(AsciiLowercase) : AsciiLowercase[k] = c
    THEN AsciiUppercase[CHOOSE k \in 1..Len(AsciiLowercase) : AsciiLowercase[k] = c]
    ELSE c

\* string.ascii_uppercase.index(c), 0-based; ValueError when c is not in it.
UppercaseIndex(c) == (CHOOSE k \in 1..Len(AsciiUppercase) : AsciiUppercase[k] = c) - 1

\* Port.__init__ with an identifier, lines 32-35.
BasePortOfIdentifier(id) ==
    LET unit == UppercaseIndex(Upper(id[1]))
        port == ParseInt(DropFirst(id, 1))
    IN  unit * PortsPerUnit + port

\* Port.identifier, line 69: string.ascii_uppercase[base_port / 24] +
\* unicode(base_port % 24); the index past 'Z' raises IndexError.
IdentifierOfBasePort(bp) ==
    IF bp \div PortsPerUnit >= Len(AsciiUppercase) THEN Raise("IndexError")
    ELSE Ok(<<AsciiUppercase[(bp \div PortsPerUnit) + 1]>> \o IntToStr(bp % PortsPerUnit))

\* The identifiers of the ports 1..24 of the units A..Z.
PortIdentifiers ==
    {<<AsciiUppercase[u]>> \o Numeral(n) : u \in 1..Len(AsciiUppercase), n \in 1..PortsPerUnit}

ConstructPort ==
    /\ port_pc = "input"
    /\ base_port' = BasePortOfIdentifier(identifier)
    /\ port_pc' = "constructed"
    /\ UNCHANGED <<identifier, identifier_read>>
    /\ UNCHANGED <<egress_ports, pvid, in_untagged_ports, untagged_vlan, tagged_vlans>>
    /\ UNCHANGED <<sessionVars, portListVars, rangeListVars, configVars>>

ReadIdentifier ==
    /\ port_pc = "constructed"
    /\ identifier_read' = IdentifierOfBasePort(base_port)
    /\ port_pc' = "read"
    /\ UNCHANGED <<identifier, base_port>>
    /\ UNCHANGED <<egress_ports, pvid, in_untagged_ports, untagged_vlan, tagged_vlans>>
    /\ UNCHANGED <<sessionVars, portListVars, rangeListVars, configVars>>

PortIdInit ==
    /\ SessionIdle
    /\ PortListIdle
    /\ RangeListIdle
    /\ ConfigIdle
    /\ identifier \in PortIdentifiers
    /\ base_port = 0
    /\ identifier_read = Ok(<<>>)
    /\ port_pc = "input"
    /\ PortVlansIdle

PortIdNext ==
    \/ ConstructPort
    \/ ReadIdentifier

PortIdSpec == PortIdInit /\ [][PortIdNext]_vars

\* C18: for every unit letter A..Z and port number 1..24,
\* Port(switch, identifier=id).identifier is id again, and no other
\* identifier has the same base_port.
C18_IdentifierRoundTrip ==
    /\ port_pc = "read" => identifier_read = Ok(identifier)
    /\ port_pc \in {"constructed", "read"} =>
          \A other \in PortIdentifiers :
              other # identifier => BasePortOfIdentifier(other) # base_port

(***************************************************************************)
(* Port.untagged_vlan and Port.tagged_vlans (port.py).  The switch and its *)
(* SNMP tables are the environment: dot1qVlanStaticEgressPorts has one row *)
(* per VLAN, in OID order, and the outcome of `self in                     *)
(* untagged_vlan.untagged_ports` is an input.                              *)
(***************************************************************************)
\* Port._get_untagged_vlan, lines 131-137.
UntaggedVlanOf(dot1qPvid, inUntaggedPorts) ==
    IF inUntaggedPorts THEN <<dot1qPvid>> ELSE <<>>

\* The test of line 155 without its second half.
IsSamePort(self, port, vlan_id, untagged) == self = port

\* self == port and (untagged_vlan is None or vlan_id != untagged_vlan.vid)
IsTaggedMember(self, port, vlan_id, untagged) ==
    self = port /\ (untagged = <<>> \/ vlan_id # untagged[1])

\* for port in get_port_list_enabled_ports(self.switch, port_list), from ports on.
RECURSIVE TaggedInRow(_, _, _, _)
TaggedInRow(self, ports, vlan_id, untagged) ==
    IF ports = <<>> THEN <<>>
    ELSE (IF IsTaggedMember(self, Head(ports), vlan_id, untagged) THEN <<vlan_id>> ELSE <<>>)
         \o TaggedInRow(self, Tail(ports), vlan_id, untagged)

\* for egress_port in egress_ports, from rows on.
RECURSIVE TaggedInRows(_, _, _)
TaggedInRows(self, rows, untagged) ==
    IF rows = <<>> THEN <<>>
    ELSE TaggedInRow(self, get_port_list_enabled_ports(Head(rows)[2]), Head(rows)[1], untagged)
         \o TaggedInRows(self, Tail(rows), untagged)

\* The bitmaps of the egress table and the ports asked about.
EgressBytes == {0, 64, 128, 192}
QueriedPorts == {1, 2}

EgressTables ==
    {[v \in 1..MaxVlans |-> <<v, <<f[v]>> >>] : f \in [1..MaxVlans -> EgressBytes]}

\* Port._get_tagged_vlans, lines 145-158, with the untagged_vlan it reads.
ReadTaggedVlans ==
    /\ port_pc = "vlans_unread"
    /\ untagged_vlan' = UntaggedVlanOf(pvid, in_untagged_ports)
    /\ tagged_vlans' =
          TaggedInRows(base_port, egress_ports, UntaggedVlanOf(pvid, in_untagged_ports))
    /\ port_pc' = "vlans_read"
    /\ UNCHANGED <<identifier, base_port, identifier_read, egress_ports, pvid,
                   in_untagged_ports>>
    /\ UNCHANGED <<sessionVars, portListVars, rangeListVars, configVars>>

PortVlansInit ==
    /\ SessionIdle
    /\ PortListIdle
    /\ RangeListIdle
    /\ ConfigIdle
    /\ identifier = <<>>
    /\ identifier_read = Ok(<<>>)
    /\ base_port \in QueriedPorts
    /\ egress_ports \in EgressTables
    /\ pvid \in 1..MaxVlans
    /\ in_untagged_ports \in BOOLEAN
    /\ untagged_vlan = <<>>
    /\ tagged_vlans = <<>>
    /\ port_pc = "vlans_unread"

PortVlansNext == ReadTaggedVlans

PortVlansSpec == PortVlansInit /\ [][PortVlansNext]_vars

\* The VLANs whose egress bitmap has the bit of base_port set.
EgressVlansOf(bp) ==
    {v \in 1..Len(egress_ports) :
        /\ bp <= 8 * Len(egress_ports[v][2])
        /\ (egress_ports[v][2][((bp - 1) \div 8) + 1] \div (2 ^ (7 - ((bp - 1) % 8)))) % 2 = 1}

\* C17: Port.tagged_vlans holds exactly the VLANs whose static egress port
\* bitmap has the port's bit set, but for the port's untagged VLAN; each of
\* them once, and never the VLAN that Port.untagged_vlan returns.
C17_TaggedVlansOfPort ==
    port_pc = "vlans_read" =>
        /\ {tagged_vlans[k] : k \in 1..Len(tagged_vlans)} =
              {v \in EgressVlansOf(base_port) : <<v>> # untagged_vlan}
        /\ \A i \in 1..Len(tagged_vlans), j \in 1..Len(tagged_vlans) :
              i # j => tagged_vlans[i] # tagged_vlans[j]
        /\ \A k \in 1..Len(tagged_vlans) : <<tagged_vlans[k]>> # untagged_vlan

\* The port is in the egress bitmap of three VLANs, the first its untagged one.
C17_Witness ==
    /\ port_pc = "vlans_read"
    /\ EgressVlansOf(base_port) = {1, 2, 3}
    /\ untagged_vlan = <<1>>
    /\ tagged_vlans = <<2, 3>>

(***************************************************************************)
(* The mutating operations and the property reads of Switch, VLAN and      *)
(* Interface.  A command is a string of characters and of words (a word    *)
(* stands for the characters of a fixed text); every execute_command call  *)
(* reads the device's whole framed answer.  The operations act on VLAN 1   *)
(* and on the interface named A1; an argument is a string: an address, a   *)
(* name, the number of an interface, or the class and the text of a route. *)
(***************************************************************************)
Quote == "\""

\* The arguments the operations are called with.
GoodAddress == "10.0.0.1/24"
BadAddress == "192.168.1.1/32"
Addresses == {GoodAddress, BadAddress}

RouteTypes == {"IPv4Route", "IPv6Route", "Route", "subclass of IPv4Route"}
RouteText(type) == IF type = "IPv6Route" THEN "fd00:1::/64 fd00::1" ELSE "10.1.0.0/16 10.0.0.254"
\* A route argument: the name of its class and its '{destination} {gateway}'.
Routes == {<<t, RouteText(t)>> : t \in RouteTypes}
TypeOf(route) == route[1]
TextOf(route) == route[2]

InterfaceNumbers == {1, 2, 3}
IdentifierPrefixes == {<<"A">>, <<>>}
InterfaceIdentifier(prefix, n) == prefix \o IntToStr(n)

Names == {<<"n">>, <<"n", " ", "n">>, <<"n", "#">>}
DefaultName == <<"d">>

RouteKinds == {"add_static_ipv4_route", "remove_static_ipv4_route",
               "add_static_ipv6_route", "remove_static_ipv6_route"}
AddressKinds == {"add_ipv4_address", "remove_ipv4_address"}
TaggedKinds == {"add_tagged_interface", "remove_tagged_interface"}
NameKinds == {"VLAN._set_name", "Interface._set_name"}

Ops ==
    [kind : RouteKinds, arg : Routes]
    \cup [kind : AddressKinds, arg : {<<a>> : a \in Addresses}]
    \cup [kind : TaggedKinds, arg : {IntToStr(n) : n \in InterfaceNumbers}]
    \cup [kind : NameKinds, arg : Names]
    \cup {[kind |-> "Interface._del_name", arg |-> <<>>]}

\* string.ascii_letters + string.digits, interface.py line 50
IsLetterOrDigit(c) == IsLetter(c) \/ IsDigit(c)

\* "\"\'@#$^&*", vlan.py line 44
IllegalVlanNameChars == {Quote, "'", "@", "#", "$", "^", "&", "*"}

\* No check at all before the commands.
AcceptsAnything(o) == TRUE

\* The first statement of each operation: the type test of the route
\* operations (switch.py lines 93, 101, 146, 157) and the asserts of the name
\* setters (interface.py line 50, vlan.py line 44); the others have none.
ArgumentAccepted(o) ==
    CASE o.kind \in {"add_static_ipv4_route", "remove_static_ipv4_route"} ->
            TypeOf(o.arg) = "IPv4Route"
      [] o.kind \in {"add_static_ipv6_route", "remove_static_ipv6_route"} ->
            TypeOf(o.arg) = "IPv6Route"
      [] o.kind = "Interface._set_name" ->
            \A i \in 1..Len(o.arg) : IsLetterOrDigit(o.arg[i])
      [] o.kind = "VLAN._set_name" ->
            \A i \in 1..Len(o.arg) : o.arg[i] \notin IllegalVlanNameChars
      [] OTHER -> TRUE

\* What the failed first statement raises.
RejectionOf(o) == IF o.kind \in NameKinds THEN "AssertionError" ELSE "Exception"

\* The command between 'config' and 'exit', with its arguments formatted in.
MutatingCommand(o, prefix) ==
    CASE o.kind = "add_static_ipv4_route" -> <<"ip route ", TextOf(o.arg)>>
      [] o.kind = "remove_static_ipv4_route" -> <<"no ip route ", TextOf(o.arg)>>
      [] o.kind = "add_static_ipv6_route" -> <<"ipv6 route ", TextOf(o.arg)>>
      [] o.kind = "remove_static_ipv6_route" -> <<"no ipv6 route ", TextOf(o.arg)>>
      [] o.kind = "add_ipv4_address" -> <<"vlan 1 ip address ">> \o o.arg
      [] o.kind = "remove_ipv4_address" -> <<"no vlan 1 ip address ">> \o o.arg
      [] o.kind = "add_tagged_interface" ->
            <<"vlan 1 tagged ">> \o prefix \o o.arg
      [] o.kind = "remove_tagged_interface" ->
            <<"no vlan 1 tagged ">> \o prefix \o o.arg
      [] o.kind = "VLAN._set_name" -> <<"vlan 1 name ", Quote>> \o o.arg \o <<Quote>>
      [] o.kind = "Interface._set_name" -> <<"interface A1 name ">> \o o.arg
      [] o.kind = "Interface._del_name" -> <<"no interface A1 name">>

\* The commands of an operation that returns without leaving the
\* configuration mode.
CommandsWithoutExit(o, prefix) == << <<"config">>, MutatingCommand(o, prefix) >>

\* The three execute_command calls of every mutating operation.
CommandsOf(o, prefix) == << <<"config">>, MutatingCommand(o, prefix), <<"exit">> >>

\* The messages of the device the operations look for.
AlreadyExists(a) == <<"The IP address (or subnet) ", a, " already exists.">>
NotConfigured(a) == <<"The IP address ", a, " is not configured on this VLAN.">>
RouteNotFound == <<"The route not found or not configurable.">>
BadIPAddress(a) == <<a, ": ", "bad IP address", ".">>

\* word in s
Contains(s, word) == \E i \in 1..Len(s) : s[i] = word

\* The statements after 'exit': vlan.py lines 89-95 and 107-110, switch.py
\* lines 110-112 and 166-168; the other operations look at no output.
OutcomeOf(o, out) ==
    CASE o.kind = "add_ipv4_address" ->
            IF Contains(out, "bad IP address") THEN "Exception"
            ELSE IF out = AlreadyExists(o.arg[1]) THEN "Exception"
            ELSE "None"
      [] o.kind = "remove_ipv4_address" ->
            IF out = NotConfigured(o.arg[1]) THEN "Exception" ELSE "None"
      [] o.kind \in {"remove_static_ipv4_route", "remove_static_ipv6_route"} ->
            IF out = RouteNotFound THEN "Exception" ELSE "None"
      [] OTHER -> "None"

(***************************************************************************)
(* The device.  It answers a command with the echoed command, CR LF, its   *)
(* message and CR LF when it has one, and the prompt line; a command that  *)
(* changes the configuration is obeyed in the configuration mode only.     *)
(***************************************************************************)
DeviceAnswer(cmd, message) ==
    cmd \o CRLF \o (IF message = <<>> THEN <<>> ELSE message \o CRLF) \o PromptLine

\* Switch.execute_command on an answer that one recv delivers whole.
ExecuteCommandWhole(cmd, message) ==
    ReturnValue(StripControlSequences(DeviceAnswer(cmd, message)), cmd)

DeviceConfig ==
    [tagged |-> dev_tagged, addresses |-> dev_addresses, routes |-> dev_routes,
     vlan_name |-> dev_vlan_name, if_name |-> dev_if_name]

InterfaceNumberOf(id) == ParseInt(DropFirst(id, Len(dev_prefix)))

\* The message the device answers a command with.
DeviceMessage(cmd, cfg) ==
    LET verb == Head(cmd) IN
    CASE verb \in {"config", "exit"} -> <<>>
      [] dev_mode # "config" -> <<"Invalid input: ", verb>>
      [] verb \in {"no ip route ", "no ipv6 route "} ->
            IF cmd[2] \in cfg.routes THEN <<>> ELSE RouteNotFound
      [] verb = "vlan 1 ip address " ->
            IF cmd[2] = BadAddress THEN BadIPAddress(cmd[2])
            ELSE IF cmd[2] \in cfg.addresses THEN AlreadyExists(cmd[2])
            ELSE <<>>
      [] verb = "no vlan 1 ip address " ->
            IF cmd[2] \in cfg.addresses THEN <<>> ELSE NotConfigured(cmd[2])
      [] OTHER -> <<>>

\* The configuration after the command.
DeviceConfigAfter(cmd, cfg) ==
    LET verb == Head(cmd) IN
    CASE verb \in {"config", "exit"} -> cfg
      [] dev_mode # "config" -> cfg
      [] verb \in {"ip route ", "ipv6 route "} ->
            [cfg EXCEPT !.routes = @ \cup {cmd[2]}]
      [] verb \in {"no ip route ", "no ipv6 route "} ->
            [cfg EXCEPT !.routes = @ \ {cmd[2]}]
      [] verb = "vlan 1 ip address " ->
            IF cmd[2] = BadAddress THEN cfg ELSE [cfg EXCEPT !.addresses = @ \cup {cmd[2]}]
      [] verb = "no vlan 1 ip address " ->
            [cfg EXCEPT !.addresses = @ \ {cmd[2]}]
      [] verb = "vlan 1 tagged " ->
            [cfg EXCEPT !.tagged = @ \cup {InterfaceNumberOf(Tail(cmd))}]
      [] verb = "no vlan 1 tagged " ->
            [cfg EXCEPT !.tagged = @ \ {InterfaceNumberOf(Tail(cmd))}]
      [] verb = "vlan 1 name " ->
            [cfg EXCEPT !.vlan_name = SubSeq(cmd, 3, Len(cmd) - 1)]
      [] verb = "interface A1 name " ->
            [cfg EXCEPT !.if_name = Tail(cmd)]
      [] verb = "no interface A1 name" ->
            [cfg EXCEPT !.if_name = <<>>]

DeviceModeAfter(cmd) ==
    CASE cmd = <<"config">> -> "config"
      [] cmd = <<"exit">> -> "manager"
      [] OTHER -> dev_mode

SetDeviceConfig(cfg) ==
    /\ dev_tagged' = cfg.tagged
    /\ dev_addresses' = cfg.addresses
    /\ dev_routes' = cfg.routes
    /\ dev_vlan_name' = cfg.vlan_name
    /\ dev_if_name' = cfg.if_name

\* The device prints a set of interfaces in ascending order, a run of
\* neighbours as first-last.
RECURSIVE RunsFrom(_, _, _)
RunsFrom(S, n, prefix) ==
    IF \A m \in S : m < n THEN <<>>
    ELSE IF n \notin S THEN RunsFrom(S, n + 1, prefix)
    ELSE LET e == CHOOSE m \in S : m >= n /\ (n..m) \subseteq S /\ (m + 1) \notin S IN
         << IF e = n THEN [kind |-> "single", prefix |-> prefix, lo |-> n, hi |-> 0]
            ELSE [kind |-> "range", prefix |-> prefix, lo |-> n, hi |-> e] >>
         \o RunsFrom(S, e + 1, prefix)

\* The output of 'show running-config vlan 1'.
RunningConfigVlan ==
    <<"vlan 1", CR, LF, "   name ", Quote>> \o dev_vlan_name \o <<Quote, CR, LF>>
    \o (IF dev_tagged = {} THEN <<>>
        ELSE <<"   tagged ">> \o Join(RunsFrom(dev_tagged, 1, dev_prefix)) \o <<CR, LF>>)
    \o (IF GoodAddress \in dev_addresses
        THEN <<"   ip address ", "10.0.0.1 255.255.255.0", CR, LF>> ELSE <<>>)
    \o <<"   exit">>

(***************************************************************************)
(* The regular expressions of the getters, matched with re.MULTILINE: a    *)
(* line ends before an LF, and the \s*$ of a pattern leaves the blanks and *)
(* the CR that end the line out of the group.                              *)
(***************************************************************************)
IsSpace(c) == c \in {" ", CR, LF}

RECURSIVE RStrip(_)
RStrip(s) ==
    IF s # <<>> /\ IsSpace(s[Len(s)]) THEN RStrip(SubSeq(s, 1, Len(s) - 1)) ELSE s

Lines(s) == Split(s, LF)

\* re.search(r"^   tagged (?P<tagged_vlan_list_string>.*?)\s*$", ...): the
\* group of the first line that matches, <<>> in a sequence; none: <<>>.
TaggedMatch(run_output) ==
    LET lines == Lines(run_output)
        matching == {k \in 1..Len(lines) : lines[k] # <<>> /\ lines[k][1] = "   tagged "}
    IN  IF matching = {} THEN <<>>
        ELSE << RStrip(Tail(lines[Least(matching)])) >>

\* re.search(r"^   name \"(?P<name>.*?)\"\s*$", ...)
NameMatch(run_output) ==
    LET lines == [k \in 1..Len(Lines(run_output)) |-> RStrip(Lines(run_output)[k])]
        matching == {k \in 1..Len(lines) :
                        /\ Len(lines[k]) >= 3
                        /\ lines[k][1] = "   name "
                        /\ lines[k][2] = Quote
                        /\ lines[k][Len(lines[k])] = Quote}
    IN  IF matching = {} THEN <<>>
        ELSE LET line == lines[Least(matching)] IN << SubSeq(line, 3, Len(line) - 1) >>

\* VLAN._get_tagged_interfaces, lines 203-209, on the output of the query.
get_tagged_interfaces(run_output) ==
    IF Contains(run_output, "VLAN configuration is not available")
    THEN Raise("VLAN is not configured")
    ELSE IF TaggedMatch(run_output) = <<>> THEN Ok(<<>>)
    ELSE interface_list_from_interface_list_string(TaggedMatch(run_output)[1])

\* VLAN._get_name, lines 33-39: group() of no match is an AttributeError.
get_name(run_output) ==
    IF Contains(run_output, "VLAN configuration is not available")
    THEN Raise("VLAN is not configured")
    ELSE IF NameMatch(run_output) = <<>> THEN Raise("AttributeError")
    ELSE Ok(NameMatch(run_output))

\* The identifiers of the interfaces of S, in ascending order.
RECURSIVE IdentifiersFrom(_, _, _)
IdentifiersFrom(S, n, prefix) ==
    IF \A m \in S : m < n THEN <<>>
    ELSE (IF n \in S THEN <<InterfaceIdentifier(prefix, n)>> ELSE <<>>)
         \o IdentifiersFrom(S, n + 1, prefix)

(***************************************************************************)
(* The operations, one action per statement that talks to the device.      *)
(***************************************************************************)
BetweenCalls == op_pc \in {"idle", "rejected", "done"}

ForgetRead ==
    /\ getter' = "none"
    /\ read_result' = Ok(<<>>)
    /\ read_truth' = <<>>

ForgetOp ==
    /\ op' = NoOp
    /\ op_pc' = "idle"
    /\ op_result' = ""
    /\ sent' = <<>>
    /\ cmd_output' = <<>>
    /\ dev_reply' = <<>>
    /\ was_member' = FALSE

\* A mutating operation whose first statement raises.
Reject(o) ==
    /\ BetweenCalls
    /\ ~ArgumentAccepted(o)
    /\ op' = o
    /\ op_pc' = "rejected"
    /\ op_result' = RejectionOf(o)
    /\ sent' = <<>>
    /\ cmd_output' = <<>>
    /\ dev_reply' = <<>>
    /\ was_member' = FALSE
    /\ ForgetRead
    /\ UNCHANGED deviceVars
    /\ UNCHANGED <<sessionVars, portListVars, rangeListVars, portVars>>

\* A mutating operation whose first statement lets the argument pass.
Begin(o) ==
    /\ BetweenCalls
    /\ ArgumentAccepted(o)
    /\ op' = o
    /\ op_pc' = "running"
    /\ op_result' = ""
    /\ sent' = <<>>
    /\ cmd_output' = <<>>
    /\ dev_reply' = <<>>
    /\ was_member' = FALSE
    /\ ForgetRead
    /\ UNCHANGED deviceVars
    /\ UNCHANGED <<sessionVars, portListVars, rangeListVars, portVars>>

\* The next execute_command call of the operation; after the last one the
\* operation looks at the output of its second command and returns or raises.
ExecuteNext ==
    /\ op_pc = "running"
    /\ LET commands == CommandsOf(op, dev_prefix)
           index == Len(sent) + 1
           cmd == commands[index]
           message == DeviceMessage(cmd, DeviceConfig)
           returned == IF index = 2 THEN ExecuteCommandWhole(cmd, message) ELSE cmd_output
       IN  /\ sent' = Append(sent, cmd)
           /\ cmd_output' = returned
           /\ dev_reply' = IF index = 2 THEN message ELSE dev_reply
           /\ was_member' = IF index = 2
                            THEN op.kind \in TaggedKinds /\ ParseInt(op.arg) \in dev_tagged
                            ELSE was_member
           /\ dev_mode' = DeviceModeAfter(cmd)
           /\ SetDeviceConfig(DeviceConfigAfter(cmd, DeviceConfig))
           /\ IF index = Len(commands)
              THEN op_pc' = "done" /\ op_result' = OutcomeOf(op, returned)
              ELSE UNCHANGED <<op_pc, op_result>>
    /\ UNCHANGED <<op, dev_prefix, readVars>>
    /\ UNCHANGED <<sessionVars, portListVars, rangeListVars, portVars>>

\* VLAN.tagged_interfaces: the query and the decoding of its output.
ReadTaggedInterfaces ==
    /\ BetweenCalls
    /\ getter' = "tagged_interfaces"
    /\ read_result' = get_tagged_interfaces(
                          ExecuteCommandWhole(<<"show running-config vlan 1">>,
                                              RunningConfigVlan))
    /\ read_truth' = IdentifiersFrom(dev_tagged, 1, dev_prefix)
    /\ ForgetOp
    /\ UNCHANGED deviceVars
    /\ UNCHANGED <<sessionVars, portListVars, rangeListVars, portVars>>

\* VLAN.name
ReadName ==
    /\ BetweenCalls
    /\ getter' = "name"
    /\ read_result' = get_name(ExecuteCommandWhole(<<"show running-config vlan 1">>,
                                                   RunningConfigVlan))
    /\ read_truth' = <<dev_vlan_name>>
    /\ ForgetOp
    /\ UNCHANGED deviceVars
    /\ UNCHANGED <<sessionVars, portListVars, rangeListVars, portVars>>

\* Another session of the device changes the tagged interfaces or the
\* addresses of the VLAN.
OtherSessionWrite ==
    /\ \/ /\ \E n \in InterfaceNumbers :
                dev_tagged' = IF n \in dev_tagged THEN dev_tagged \ {n}
                              ELSE dev_tagged \cup {n}
          /\ UNCHANGED dev_addresses
       \/ /\ dev_addresses' = IF GoodAddress \in dev_addresses
                              THEN dev_addresses \ {GoodAddress}
                              ELSE dev_addresses \cup {GoodAddress}
          /\ UNCHANGED dev_tagged
    /\ UNCHANGED <<dev_mode, dev_prefix, dev_routes, dev_vlan_name, dev_if_name>>
    /\ UNCHANGED <<opVars, readVars>>
    /\ UNCHANGED <<sessionVars, portListVars, rangeListVars, portVars>>

ConfigInit ==
    /\ SessionIdle
    /\ PortListIdle
    /\ RangeListIdle
    /\ PortIdle
    /\ OpIdle
    /\ ReadIdle
    /\ dev_mode = "manager"
    /\ dev_prefix \in IdentifierPrefixes
    /\ dev_tagged = {}
    /\ dev_addresses = {}
    /\ dev_routes = {}
    /\ dev_vlan_name = DefaultName
    /\ dev_if_name = <<>>

ConfigNext ==
    \/ \E o \in Ops : Reject(o)
    \/ \E o \in Ops : Begin(o)
    \/ ExecuteNext
    \/ ReadTaggedInterfaces
    \/ ReadName
    \/ OtherSessionWrite

ConfigSpec == ConfigInit /\ [][ConfigNext]_vars

\* The message an operation compares the output of its command with.
ErrorMessageOf(o) ==
    CASE o.kind = "add_ipv4_address" -> AlreadyExists(o.arg[1])
      [] o.kind = "remove_ipv4_address" -> NotConfigured(o.arg[1])
      [] o.kind \in {"remove_static_ipv4_route", "remove_static_ipv6_route"} -> RouteNotFound
      [] OTHER -> <<"no message">>

\* C11: an operation that checks the reply of the device for an error
\* message raises an exception whenever the device answered its command with
\* that message, framed as echoed command, CR LF, message, CR LF, prompt.
C11_RaisesOnErrorMessage ==
    (op_pc = "done" /\ dev_reply = ErrorMessageOf(op)) => op_result = "Exception"

\* C12: adding to the VLAN an interface that is already tagged in it gives
\* the outcome CacheInconsistency.  (The device keeps the interface in the
\* set, DeviceConfigAfter; what a later query returns of it is C13.)
C12_AddMemberIsCacheInconsistency ==
    (op_pc = "done" /\ op.kind = "add_tagged_interface" /\ was_member)
        => op_result = "CacheInconsistency"

\* C13: a property read gives the value the device's running configuration
\* had when it was queried, whatever this and other sessions wrote before.
C13_ReadGivesRunningConfig ==
    getter # "none" => read_result = Ok(read_truth)

C16_Invalid(o) ==
    \/ o.kind \in {"add_static_ipv4_route", "remove_static_ipv4_route"} /\ o.arg[1] # "IPv4Route"
    \/ o.kind \in {"add_static_ipv6_route", "remove_static_ipv6_route"} /\ o.arg[1] # "IPv6Route"
    \/ o.kind = "Interface._set_name" /\ \E i \in 1..Len(o.arg) : o.arg[i] \in {" ", "#"}
    \/ o.kind = "VLAN._set_name" /\ \E i \in 1..Len(o.arg) : o.arg[i] = "#"

\* C16: a route operation given a route that is not of exactly its route
\* class, and a name setter given a name with a forbidden character, fails
\* before any command is sent: it sends nothing, and the step that fails
\* leaves the session and the device's configuration as they were.
C16_ValidationFirst ==
    /\ [](C16_Invalid(op) => (op_pc = "rejected" /\ op_result # "None" /\ sent = <<>>))
    /\ [][(op_pc' = "rejected" /\ <<op, op_pc>>' # <<op, op_pc>>)
            => UNCHANGED <<deviceVars, sessionVars>>]_vars

\* A remove of an IPv6 route was given an IPv4 route.
C16_Witness ==
    /\ op_pc = "rejected"
    /\ op.kind = "remove_static_ipv6_route"
    /\ op.arg[1] = "IPv4Route"
    /\ sent = <<>>
    /\ dev_routes # {}

====
